---- MODULE Spec2Model ----
(***************************************************************************)
(* Model of avr-tester's UART channel buffer (simulator/uart.rs), its      *)
(* test-facing facade (uart.rs) and the digital-pin wait loops             *)
(* (pins/digital_pin.rs).                                                  *)
(*                                                                         *)
(* The simulated AVR (simavr) is the environment: it fires the registered  *)
(* IRQ callbacks (on_output, on_xon, on_xoff) while it runs, and may       *)
(* answer an injected byte with XOFF when its input FIFO fills up.         *)
(***************************************************************************)
EXTENDS Integers, Sequences, FiniteSets, TLC

VARIABLES
    rx,        \* UartT::rx  (bytes AVR -> test code)
    tx,        \* UartT::tx  (bytes test code -> AVR)
    xon,       \* UartT::xon
    pc,        \* "test": test code runs; "flush": inside Uart::flush;
               \* "engine": inside avr.run(), IRQ callbacks may fire;
               \* "panic": the test was aborted by a panic
    sent,      \* history: bytes passed to send(), in call order
    injected,  \* history: bytes handed to avr_raise_irq(), in order
    outLog,    \* history: bytes the engine delivered to on_output, in order
    recvLog,   \* history: bytes returned by recv() as Some(_), in order
    sawNone,   \* recv() returned None and run() was not called since
    txEntry,   \* history: tx as the flush in progress found it (<<>> outside flush)
    pin,       \* level of the pin the handle names (TRUE = high)
    ppc,       \* position of the pin handle's caller: "idle", "loop" (at the
               \* loop condition), "await" (suspended in run().await), "done"
    op,        \* the wait operation in progress or just returned
    mode,      \* "sync" (DigitalPin) or "async" (DigitalPinAsync)
    state,     \* pulse_in's `state`: the level captured at call time
    tt,        \* the operation's accumulated CpuDuration
    reported,  \* history: cycles reported by each run() of this operation
    levels,    \* history: the pin's level after each run() of this operation
    toggled,   \* history: levels found by the toggle() calls made back to back
    cycle,     \* the engine's cycle count, as advanced by the steps of pin waits
    pin0       \* history: the pin's level when the operation was called

\* Uart::try_init and the engine it talks to
VARIABLES
    ipc,        \* position in try_init: "start", "flags", "irqs", "register",
                \* "some", "none", "panic"
    supported,  \* engine: the hardware profile has this channel
    uartFlags,  \* engine: the channel's flags
    nullIrqs,   \* engine: the notification points it has no irq for
    flags,      \* try_init's local `flags`
    hooks,      \* engine: <<irq, callback>> registrations, in order
    flags0      \* history: the channel's flags before try_init

tryVars == <<ipc, supported, uartFlags, nullIrqs, flags, hooks, flags0>>

\* One engine behaviour given to a DigitalPin and to a DigitalPinAsync
VARIABLES
    trace,   \* the engine's steps: <<cycles reported, pin level afterwards>>
    level0,  \* the pin's level before the first step
    eop,     \* the wait operation both handles run
    spc,     \* DigitalPin: "idle", "loop", "done"
    si,      \* DigitalPin: steps executed
    stt,     \* DigitalPin: `tt`
    sstate,  \* DigitalPin: `state`
    apc,     \* DigitalPinAsync: "idle", "loop", "await", "done"
    ai,      \* DigitalPinAsync: steps executed
    att,     \* DigitalPinAsync: `tt`
    astate   \* DigitalPinAsync: `state`

eqVars == <<trace, level0, eop, spc, si, stt, sstate, apc, ai, att, astate>>

\* Components of the cooperative runtime, each in a wait operation
VARIABLES
    comps,     \* component -> [op, cpc, state, tt, seen, obs]
    queue,     \* components to resume for the step just completed, in order
    pending,   \* components suspended since, in the order they suspended
    stepNo,    \* engine steps completed
    rtPin,     \* pin -> level
    rtPin0,    \* history: the pins' levels before the first step
    durs,      \* history: cycles reported by each step
    rtLevels   \* history: the pins' levels after each step

rtVars == <<comps, queue, pending, stepNo, rtPin, rtPin0, durs, rtLevels>>

auxVars == <<tryVars, eqVars, rtVars>>

uartVars ==
    <<rx, tx, xon, pc, sent, injected, outLog, recvLog, sawNone, txEntry>>

pinVars == <<pin, ppc, op, mode, state, tt, reported, levels, toggled, cycle, pin0>>

vars == <<rx, tx, xon, pc, sent, injected, outLog, recvLog, sawNone, txEntry,
          pin, ppc, op, mode, state, tt, reported, levels, toggled, cycle, pin0, auxVars>>

(***************************************************************************)
(* Bounds of the exploration.                                              *)
(***************************************************************************)
MaxSend == 5    \* single send() calls explored
MaxOut == 2     \* single on_output notifications explored
MaxRecv == 2    \* successful recv() calls explored
FloodOps == 1   \* single send() calls explored once a long burst happened

MaxSteps == 3   \* run() calls explored within one wait operation
MaxCycles == 24  \* engine cycles explored in all
MaxTimeOps == 1  \* send() calls explored next to the pin operations
MaxTrace == 3    \* engine steps given to the pair of handles
NComp == 2       \* components of the cooperative runtime
MaxRtSteps == 2  \* engine steps explored under the cooperative runtime

Byte == {65, 255}

\* cycles one engine step may report (an instruction takes at least one)
StepCycles == {4, 8}

(***************************************************************************)
(* CpuDuration                                                             *)
(***************************************************************************)
ClockFrequency == 16000000

CpuDuration(frequency, cycles) == [freq |-> frequency, cycles |-> cycles]

CpuZero == CpuDuration(ClockFrequency, 0)

\* `CpuDuration::new(rt.clock_frequency(), 0)`: the runtime's frequency is the
\* session's
CpuZeroAsync == CpuDuration(ClockFrequency, 0)

\* CpuDuration += CpuDuration (same clock frequency)
CpuAdd(a, b) == CpuDuration(a.freq, a.cycles + b.cycles)

\* simulated microseconds: cycles / frequency
AsMicros(d) == (d.cycles * 1000000) \div d.freq

None == <<>>
Some(b) == <<b>>

(***************************************************************************)
(* UartT                                                                   *)
(***************************************************************************)
MAX_BYTES == 16 * 1024

\* rx_push with an off-by-one capacity test
RxPushOffByOne(q, value) == IF Len(q) <= MAX_BYTES THEN Append(q, value) ELSE q

\* rx_push that makes room by dropping the oldest byte
RxPushDropOldest(q, value) ==
    IF Len(q) < MAX_BYTES THEN Append(q, value) ELSE Append(Tail(q), value)

RxPush(q, value) == IF Len(q) < MAX_BYTES THEN Append(q, value) ELSE q

\* rx_pop taking the newest byte (pop_back)
RxPopBack(q) ==
    IF q = <<>> THEN <<None, q>>
    ELSE <<Some(q[Len(q)]), SubSeq(q, 1, Len(q) - 1)>>

\* VecDeque::pop_front: <<returned option, remaining queue>>
RxPop(q) == IF q = <<>> THEN <<None, q>> ELSE <<Some(Head(q)), Tail(q)>>

\* tx_push bounded like rx_push
TxPushBounded(q, value) == IF Len(q) < MAX_BYTES THEN Append(q, value) ELSE q

TxPush(q, value) == Append(q, value)

\* tx_pop taking the newest byte (pop_back)
TxPopBack(q) ==
    IF q = <<>> THEN <<None, q>>
    ELSE <<Some(q[Len(q)]), SubSeq(q, 1, Len(q) - 1)>>

TxPop(q) == IF q = <<>> THEN <<None, q>> ELSE <<Some(Head(q)), Tail(q)>>

\* k consecutive rx_push(value) calls.  The first half is forced (Len) before
\* the second half is applied, since operator arguments are evaluated lazily.
RECURSIVE RxPushN(_, _, _)
RxPushN(q, value, k) ==
    IF k = 0 THEN q
    ELSE IF k = 1 THEN RxPush(q, value)
    ELSE LET h == k \div 2
             m == RxPushN(q, value, h)
         IN  IF Len(m) >= 0 THEN RxPushN(m, value, k - h) ELSE m

\* k consecutive tx_push(value) calls.
RECURSIVE TxPushN(_, _, _)
TxPushN(q, value, k) ==
    IF k = 0 THEN q
    ELSE IF k = 1 THEN TxPush(q, value)
    ELSE LET h == k \div 2
             m == TxPushN(q, value, h)
         IN  IF Len(m) >= 0 THEN TxPushN(m, value, k - h) ELSE m

\* k copies of value
Rep(value, k) == [i \in 1..k |-> value]

\* Length of the long bursts: the engine transmits OutBurst bytes in a row,
\* the test code writes a WriteBurst-byte array.
OutBurst == MAX_BYTES - 1
WriteBurst == 2 * MAX_BYTES + 1

Flooded == Len(outLog) >= OutBurst \/ Len(sent) >= WriteBurst

\* number of single on_output notifications so far
Singles == IF Len(outLog) >= OutBurst THEN Len(outLog) - OutBurst ELSE Len(outLog)

InitUartPin ==
    /\ rx = <<>>
    /\ tx = <<>>
    /\ xon = TRUE
    /\ pc = "test"
    /\ sent = <<>>
    /\ injected = <<>>
    /\ outLog = <<>>
    /\ recvLog = <<>>
    /\ sawNone = FALSE
    /\ txEntry = <<>>
    /\ pin = FALSE
    /\ ppc = "idle"
    /\ op = "none"
    /\ mode = "sync"
    /\ state = FALSE
    /\ tt = CpuZero
    /\ reported = <<>>
    /\ levels = <<>>
    /\ toggled = <<>>
    /\ cycle = 0
    /\ pin0 = FALSE

\* The flags simavr defines for a channel, and its three notification points
UartFlag == {"AVR_UART_FLAG_STDIO", "AVR_UART_FLAG_POOL_SLEEP"}
UartIrq == {"UART_IRQ_OUTPUT", "UART_IRQ_OUT_XON", "UART_IRQ_OUT_XOFF"}

\* What try_init registers when it succeeds
AllHooks ==
    << <<"UART_IRQ_OUTPUT", "on_output">>,
       <<"UART_IRQ_OUT_XON", "on_xon">>,
       <<"UART_IRQ_OUT_XOFF", "on_xoff">> >>

\* The channel after a successful try_init
InitTryDone ==
    /\ ipc = "some"
    /\ supported = TRUE
    /\ uartFlags = {}
    /\ nullIrqs = {}
    /\ flags = {}
    /\ hooks = AllHooks
    /\ flags0 = {}

\* No second pair of handles, no runtime components
InitNoEquiv ==
    /\ trace = <<>>
    /\ level0 = FALSE
    /\ eop = "none"
    /\ spc = "idle"
    /\ si = 0
    /\ stt = CpuZero
    /\ sstate = FALSE
    /\ apc = "idle"
    /\ ai = 0
    /\ att = CpuZero
    /\ astate = FALSE

InitNoRuntime ==
    /\ comps = <<>>
    /\ queue = <<>>
    /\ pending = <<>>
    /\ stepNo = 0
    /\ rtPin = <<>>
    /\ rtPin0 = <<>>
    /\ durs = <<>>
    /\ rtLevels = <<>>

Init == InitUartPin /\ InitTryDone /\ InitNoEquiv /\ InitNoRuntime

(***************************************************************************)
(* Test code -> buffer                                                     *)
(***************************************************************************)
\* send() that also loops the byte back into rx
SendLoopback(byte) ==
    /\ pc = "test"
    /\ Len(sent) < (IF Flooded THEN FloodOps ELSE MaxSend)
    /\ tx' = TxPush(tx, byte)
    /\ rx' = RxPush(rx, byte)
    /\ sent' = Append(sent, byte)
    /\ UNCHANGED <<xon, pc, injected, outLog, recvLog, sawNone, txEntry, pinVars, auxVars>>

\* Uart::write_byte -> AvrSimulator::write_uart -> simulator Uart::send
Send(byte) ==
    /\ pc = "test"
    /\ Len(sent) < (IF Flooded THEN FloodOps ELSE MaxSend)
    /\ tx' = TxPush(tx, byte)
    /\ sent' = Append(sent, byte)
    /\ UNCHANGED <<rx, xon, pc, injected, outLog, recvLog, sawNone, txEntry, pinVars, auxVars>>

\* Uart::write of a WriteBurst-byte array: one write_byte per element.
\* Explored as the first write of a test whose firmware has asserted XOFF.
WriteArray(byte) ==
    /\ pc = "test"
    /\ ~xon
    /\ sent = <<>>
    /\ outLog = <<>>
    /\ tx' = TxPushN(tx, byte, WriteBurst)
    /\ sent' = Rep(byte, WriteBurst)
    /\ UNCHANGED <<rx, xon, pc, injected, outLog, recvLog, sawNone, txEntry, pinVars, auxVars>>

\* Uart::try_read_byte -> AvrSimulator::read_uart -> simulator Uart::recv
Recv ==
    /\ pc = "test"
    /\ (rx = <<>> \/ Len(recvLog) < MaxRecv)
    /\ LET r == RxPop(rx) IN
        /\ rx' = r[2]
        /\ recvLog' = recvLog \o r[1]
        /\ sawNone' = (r[1] = None)
    /\ UNCHANGED <<tx, xon, pc, sent, injected, outLog, txEntry, pinVars, auxVars>>

\* read_byte() that answers an empty buffer with a default byte
ReadByteOrDefault ==
    /\ pc = "test"
    /\ (rx = <<>> \/ Len(recvLog) < MaxRecv)
    /\ LET r == RxPop(rx) IN
        /\ rx' = r[2]
        /\ recvLog' = recvLog \o (IF r[1] = None THEN Some(65) ELSE r[1])
        /\ sawNone' = (r[1] = None)
    /\ UNCHANGED <<tx, xon, pc, sent, injected, outLog, txEntry, pinVars, auxVars>>

\* Reader::read_byte (Uart::read::<u8>): try_read_byte().expect(..)
ReadByte ==
    /\ pc = "test"
    /\ (rx = <<>> \/ Len(recvLog) < MaxRecv)
    /\ LET r == RxPop(rx) IN
        /\ rx' = r[2]
        /\ recvLog' = recvLog \o r[1]
        /\ sawNone' = (r[1] = None)
        /\ pc' = IF r[1] = None THEN "panic" ELSE pc
    /\ UNCHANGED <<tx, xon, sent, injected, outLog, txEntry, pinVars, auxVars>>

(***************************************************************************)
(* AvrTester::run(): flush the UART, then let the engine run; the engine   *)
(* fires the IRQ callbacks before run() returns.                           *)
(***************************************************************************)
RunBegin ==
    /\ pc = "test"
    /\ pc' = "flush"
    /\ sawNone' = FALSE
    /\ txEntry' = tx
    /\ UNCHANGED <<rx, tx, xon, sent, injected, outLog, recvLog, pinVars, auxVars>>

\* flush loop that injects the front byte without removing it from tx
FlushStepPeek(react) ==
    /\ pc = "flush"
    /\ IF ~xon
         THEN /\ pc' = "engine"
              /\ txEntry' = <<>>
              /\ UNCHANGED <<tx, injected, xon>>
         ELSE LET p == TxPop(tx) IN
              IF p[1] = None
                THEN /\ pc' = "engine"
                     /\ txEntry' = <<>>
                     /\ UNCHANGED <<tx, injected, xon>>
                ELSE /\ tx' = tx
                     /\ Len(injected) < MaxSend
                     /\ injected' = injected \o p[1]
                     /\ xon' = IF react THEN FALSE ELSE xon
                     /\ pc' = "flush"
                     /\ UNCHANGED txEntry
    /\ UNCHANGED <<rx, sent, outLog, recvLog, sawNone, pinVars, auxVars>>

\* flush loop that pops and injects without testing is_xon()
FlushStepNoXonCheck(react) ==
    /\ pc = "flush"
    /\ LET p == TxPop(tx) IN
         IF p[1] = None
           THEN /\ pc' = "engine"
                /\ txEntry' = <<>>
                /\ UNCHANGED <<tx, injected, xon>>
           ELSE /\ tx' = p[2]
                /\ injected' = injected \o p[1]
                /\ xon' = IF react THEN FALSE ELSE xon
                /\ pc' = "flush"
                /\ UNCHANGED txEntry
    /\ UNCHANGED <<rx, sent, outLog, recvLog, sawNone, pinVars, auxVars>>

\* One iteration of the loop of Uart::flush.  After avr_raise_irq the engine
\* may synchronously answer with XOFF (react = TRUE).
FlushStep(react) ==
    /\ pc = "flush"
    /\ IF ~xon
         THEN /\ pc' = "engine"
              /\ txEntry' = <<>>
              /\ UNCHANGED <<tx, injected, xon>>
         ELSE LET p == TxPop(tx) IN
              IF p[1] = None
                THEN /\ pc' = "engine"
                     /\ txEntry' = <<>>
                     /\ UNCHANGED <<tx, injected, xon>>
                ELSE /\ tx' = p[2]
                     /\ injected' = injected \o p[1]
                     /\ xon' = IF react THEN FALSE ELSE xon
                     /\ pc' = "flush"
                     /\ UNCHANGED txEntry
    /\ UNCHANGED <<rx, sent, outLog, recvLog, sawNone, pinVars, auxVars>>

Flush == \E react \in BOOLEAN : FlushStep(react)

\* Uart::on_output
OnOutput(value) ==
    /\ pc = "engine"
    /\ Singles < MaxOut
    /\ rx' = RxPush(rx, value)
    /\ outLog' = Append(outLog, value)
    /\ UNCHANGED <<tx, xon, pc, sent, injected, recvLog, sawNone, txEntry, pinVars, auxVars>>

\* OutBurst consecutive on_output notifications carrying the same byte.
\* Explored as the first traffic of a session.
OnOutputBurst(value) ==
    /\ pc = "engine"
    /\ outLog = <<>>
    /\ sent = <<>>
    /\ rx' = RxPushN(rx, value, OutBurst)
    /\ outLog' = Rep(value, OutBurst)
    /\ UNCHANGED <<tx, xon, pc, sent, injected, recvLog, sawNone, txEntry, pinVars, auxVars>>

\* on_xon calling set_xoff
OnXonClears ==
    /\ pc = "engine"
    /\ Len(tx) <= MaxSend
    /\ xon' = FALSE
    /\ UNCHANGED <<rx, tx, pc, sent, injected, outLog, recvLog, sawNone, txEntry, pinVars, auxVars>>

\* Uart::on_xon.  Explored while tx is short: after a WriteArray the firmware
\* never sends XON again (it never drains its input).
OnXon ==
    /\ pc = "engine"
    /\ Len(tx) <= MaxSend
    /\ xon' = TRUE
    /\ UNCHANGED <<rx, tx, pc, sent, injected, outLog, recvLog, sawNone, txEntry, pinVars, auxVars>>

\* Uart::on_xoff
OnXoff ==
    /\ pc = "engine"
    /\ xon' = FALSE
    /\ UNCHANGED <<rx, tx, pc, sent, injected, outLog, recvLog, sawNone, txEntry, pinVars, auxVars>>

RunEnd ==
    /\ pc = "engine"
    /\ pc' = "test"
    /\ UNCHANGED <<rx, tx, xon, sent, injected, outLog, recvLog, sawNone, txEntry, pinVars, auxVars>>

SendAny == \E b \in Byte : Send(b)
WriteArrayAny == \E b \in Byte : WriteArray(b)
OnOutputAny == \E b \in Byte : OnOutput(b)
OnOutputBurstAny == OnOutputBurst(65)

Next ==
    \/ SendAny
    \/ WriteArrayAny
    \/ Recv
    \/ ReadByte
    \/ RunBegin
    \/ Flush
    \/ OnOutputAny
    \/ OnOutputBurstAny
    \/ OnXon
    \/ OnXoff
    \/ RunEnd

Spec == Init /\ [][Next]_vars

(***************************************************************************)
(* Uart::try_init                                                          *)
(***************************************************************************)
\* A channel before try_init, on any hardware profile
InitTry ==
    /\ InitUartPin
    /\ ipc = "start"
    /\ supported \in BOOLEAN
    /\ uartFlags \in SUBSET UartFlag
    /\ nullIrqs \in SUBSET UartIrq
    /\ flags = {}
    /\ hooks = <<>>
    /\ flags0 = uartFlags
    /\ InitNoEquiv
    /\ InitNoRuntime

\* ioctl(UartGetFlags): nonzero when the profile lacks the channel, else the
\* channel's flags are stored through the pointer
IoctlGetFlags == IF supported THEN <<0, uartFlags>> ELSE <<1, flags>>

\* try_init going on whatever UartGetFlags answered
TryGetFlagsUnchecked ==
    /\ ipc = "start"
    /\ flags' = IoctlGetFlags[2]
    /\ ipc' = "flags"
    /\ UNCHANGED <<supported, uartFlags, nullIrqs, hooks, flags0, uartVars, pinVars, eqVars, rtVars>>

\* `let result = avr.ioctl(UartGetFlags, &mut flags); if result != 0 { return None; }`
TryGetFlags ==
    /\ ipc = "start"
    /\ LET r == IoctlGetFlags IN
         /\ flags' = r[2]
         /\ ipc' = IF r[1] # 0 THEN "none" ELSE "flags"
    /\ UNCHANGED <<supported, uartFlags, nullIrqs, hooks, flags0, uartVars, pinVars, eqVars, rtVars>>

\* `flags &= !AVR_UART_FLAG_STDIO; avr.ioctl(UartSetFlags, &mut flags);`
TrySetFlags ==
    /\ ipc = "flags"
    /\ flags' = flags \ {"AVR_UART_FLAG_STDIO"}
    /\ uartFlags' = flags'
    /\ ipc' = "irqs"
    /\ UNCHANGED <<supported, nullIrqs, hooks, flags0, uartVars, pinVars, eqVars, rtVars>>

\* try_init registering on_output before it looks at the other two irqs
TryGetIrqsLate ==
    /\ ipc = "irqs"
    /\ IF "UART_IRQ_OUTPUT" \in nullIrqs
         THEN ipc' = "panic" /\ UNCHANGED hooks
         ELSE /\ hooks' = Append(hooks, AllHooks[1])
              /\ ipc' = IF nullIrqs # {} THEN "panic" ELSE "register"
    /\ UNCHANGED <<supported, uartFlags, nullIrqs, flags, flags0, uartVars, pinVars, eqVars, rtVars>>

\* The three avr_io_getirq calls and the null check on their results
TryGetIrqs ==
    /\ ipc = "irqs"
    /\ ipc' = IF \E i \in UartIrq : i \in nullIrqs THEN "panic" ELSE "register"
    /\ UNCHANGED <<supported, uartFlags, nullIrqs, flags, hooks, flags0, uartVars, pinVars, eqVars, rtVars>>

\* The next of the three avr_irq_register_notify calls
TryRegister ==
    /\ ipc = "register"
    /\ Len(hooks) < Len(AllHooks)
    /\ hooks' = Append(hooks, AllHooks[Len(hooks) + 1])
    /\ UNCHANGED <<ipc, supported, uartFlags, nullIrqs, flags, flags0, uartVars, pinVars, eqVars, rtVars>>

\* `Some(self)`
TryReturn ==
    /\ ipc = "register"
    /\ Len(hooks) = Len(AllHooks)
    /\ ipc' = "some"
    /\ UNCHANGED <<supported, uartFlags, nullIrqs, flags, hooks, flags0, uartVars, pinVars, eqVars, rtVars>>

NextTry ==
    \/ TryGetFlags
    \/ TrySetFlags
    \/ TryGetIrqs
    \/ TryRegister
    \/ TryReturn

SpecTry == InitTry /\ [][NextTry]_vars


(***************************************************************************)
(* DigitalPin / DigitalPinAsync                                            *)
(*                                                                         *)
(* While a pin operation runs, nothing is queued on the UART and the       *)
(* firmware transmits nothing, so run() only advances the engine: it       *)
(* reports the cycles taken and leaves the pin at some level.              *)
(***************************************************************************)
IsHigh == pin

\* is_low() answering what is_high() answers
IsLowAsHigh == IsHigh

IsLow == ~IsHigh

\* loop conditions with wait_while_low and wait_while_high swapped
WaitCondSwapped(o, level, captured) ==
    CASE o = "pulse_in" -> level = captured
      [] o = "wait_while_low" -> level
      [] o = "wait_while_high" -> ~level

\* pulse_in looping while the level differs from the captured one
WaitCondPulseInverted(o, level, captured) ==
    CASE o = "pulse_in" -> level # captured
      [] o = "wait_while_low" -> ~level
      [] o = "wait_while_high" -> level

\* The `while` condition of each wait operation
WaitCond(o, level, captured) ==
    CASE o = "pulse_in" -> level = captured
      [] o = "wait_while_low" -> ~level
      [] o = "wait_while_high" -> level

\* async pulse_in looping while the pin is high, whatever level it captured
WaitCondAsyncWhileHigh(o, level, captured) ==
    CASE o = "pulse_in" -> level
      [] o = "wait_while_low" -> ~level
      [] o = "wait_while_high" -> level

\* The `while` condition of each wait operation of DigitalPinAsync
WaitCondAsync(o, level, captured) ==
    CASE o = "pulse_in" -> level = captured
      [] o = "wait_while_low" -> ~level
      [] o = "wait_while_high" -> level

\* The condition the operation in progress tests, on the current level
LoopCond ==
    IF mode = "async" THEN WaitCondAsync(op, IsHigh, state)
                      ELSE WaitCond(op, IsHigh, state)

\* `tt = run()`: the step's duration replaces the total
AccumulateOverwrite(t, cycles) == CpuDuration(ClockFrequency, cycles)

\* `tt += run()`
Accumulate(t, cycles) == CpuAdd(t, CpuDuration(ClockFrequency, cycles))

WaitOps == {"pulse_in", "wait_while_low", "wait_while_high"}

\* set() that lets the engine run for one 4-cycle step
SetSteps(high) ==
    /\ pc = "test"
    /\ ppc \in {"idle", "done"}
    /\ cycle + 4 <= MaxCycles
    /\ cycle' = cycle + 4
    /\ pin' = high
    /\ ppc' = "idle"
    /\ toggled' = <<>>
    /\ UNCHANGED <<op, mode, state, tt, reported, levels, pin0, uartVars, auxVars>>

\* DigitalPin::set / DigitalPinAsync::set
Set(high) ==
    /\ pc = "test"
    /\ ppc \in {"idle", "done"}
    /\ pin' = high
    /\ ppc' = "idle"
    /\ toggled' = <<>>
    /\ UNCHANGED <<op, mode, state, tt, reported, levels, pin0, cycle, uartVars, auxVars>>

\* DigitalPin::toggle / DigitalPinAsync::toggle
Toggle ==
    /\ pc = "test"
    /\ ppc \in {"idle", "done"}
    /\ pin' = IF IsLow THEN TRUE ELSE FALSE
    /\ ppc' = "idle"
    /\ toggled' = IF Len(toggled) < 2 THEN Append(toggled, pin)
                                     ELSE <<toggled[2], pin>>
    /\ UNCHANGED <<op, mode, state, tt, reported, levels, pin0, cycle, uartVars, auxVars>>

\* Entry of pulse_in / wait_while_low / wait_while_high: tt starts at zero,
\* pulse_in captures the current level.
Call(o, m) ==
    /\ pc = "test"
    /\ ppc \in {"idle", "done"}
    /\ op' = o
    /\ mode' = m
    /\ tt' = IF m = "async" THEN CpuZeroAsync ELSE CpuZero
    /\ state' = IF o = "pulse_in" THEN IsHigh ELSE FALSE
    /\ reported' = <<>>
    /\ levels' = <<>>
    /\ pin0' = pin
    /\ ppc' = "loop"
    /\ toggled' = <<>>
    /\ UNCHANGED <<pin, cycle, uartVars, auxVars>>

\* a loop that also gives up once two steps were executed
LoopExitTimeout ==
    /\ ppc = "loop"
    /\ (~LoopCond \/ Len(reported) >= 2)
    /\ ppc' = "done"
    /\ toggled' = <<>>
    /\ UNCHANGED <<pin, op, mode, state, tt, reported, levels, pin0, cycle, uartVars, auxVars>>

\* The loop condition is false: the operation returns tt.
LoopExit ==
    /\ ppc = "loop"
    /\ ~LoopCond
    /\ ppc' = "done"
    /\ toggled' = <<>>
    /\ UNCHANGED <<pin, op, mode, state, tt, reported, levels, pin0, cycle, uartVars, auxVars>>

\* an iteration that steps without testing the loop condition first
StepSyncDoWhile(cycles, level) ==
    /\ ppc = "loop"
    /\ mode = "sync"
    /\ Len(reported) < MaxSteps
    /\ cycle + cycles <= MaxCycles
    /\ cycle' = cycle + cycles
    /\ tt' = Accumulate(tt, cycles)
    /\ reported' = Append(reported, cycles)
    /\ levels' = Append(levels, level)
    /\ pin' = level
    /\ toggled' = <<>>
    /\ UNCHANGED <<ppc, op, mode, state, pin0, uartVars, auxVars>>

\* DigitalPin: one iteration, `tt += self.avr.run()`
StepSync(cycles, level) ==
    /\ ppc = "loop"
    /\ mode = "sync"
    /\ WaitCond(op, IsHigh, state)
    /\ Len(reported) < MaxSteps
    /\ cycle + cycles <= MaxCycles
    /\ cycle' = cycle + cycles
    /\ tt' = Accumulate(tt, cycles)
    /\ reported' = Append(reported, cycles)
    /\ levels' = Append(levels, level)
    /\ pin' = level
    /\ toggled' = <<>>
    /\ UNCHANGED <<ppc, op, mode, state, pin0, uartVars, auxVars>>

\* DigitalPinAsync: the iteration suspends in `avr_rt().run().await`
Suspend ==
    /\ ppc = "loop"
    /\ mode = "async"
    /\ WaitCondAsync(op, IsHigh, state)
    /\ Len(reported) < MaxSteps
    /\ ppc' = "await"
    /\ toggled' = <<>>
    /\ UNCHANGED <<pin, op, mode, state, tt, reported, levels, pin0, cycle, uartVars, auxVars>>

\* DigitalPinAsync: the step completed, the component resumes with its result
Resume(cycles, level) ==
    /\ ppc = "await"
    /\ cycle + cycles <= MaxCycles
    /\ cycle' = cycle + cycles
    /\ tt' = Accumulate(tt, cycles)
    /\ reported' = Append(reported, cycles)
    /\ levels' = Append(levels, level)
    /\ pin' = level
    /\ ppc' = "loop"
    /\ toggled' = <<>>
    /\ UNCHANGED <<op, mode, state, pin0, uartVars, auxVars>>

SetAny == \E high \in BOOLEAN : Set(high)
CallAny == \E o \in WaitOps, m \in {"sync", "async"} : Call(o, m)
StepSyncAny == \E c \in StepCycles, level \in BOOLEAN : StepSync(c, level)
ResumeAny == \E c \in StepCycles, level \in BOOLEAN : Resume(c, level)

NextPin ==
    \/ SetAny
    \/ Toggle
    \/ CallAny
    \/ LoopExit
    \/ StepSyncAny
    \/ Suspend
    \/ ResumeAny

SpecPin == Init /\ [][NextPin]_vars

\* The test thread between two wait operations: pin operations and the
\* test-side channel operations, none of which calls run().
TestSend == ppc \in {"idle", "done"} /\ Len(sent) < MaxTimeOps /\ SendAny
TestRecv == ppc \in {"idle", "done"} /\ Recv
TestReadByte == ppc \in {"idle", "done"} /\ ReadByte

NextTime ==
    \/ SetAny
    \/ Toggle
    \/ CallAny
    \/ LoopExit
    \/ StepSyncAny
    \/ Suspend
    \/ ResumeAny
    \/ TestSend
    \/ TestRecv
    \/ TestReadByte

SpecTime == Init /\ [][NextTime]_vars

\* The thread running a wait operation keeps running: once its loop condition
\* is false it does leave the loop.
SpecPinLive == Init /\ [][NextPin]_vars /\ WF_vars(LoopExit)

(***************************************************************************)
(* DigitalPin and DigitalPinAsync against the same engine behaviour         *)
(***************************************************************************)
EngineStep == [cycles : StepCycles, level : BOOLEAN]

Traces == UNION {[1..n -> EngineStep] : n \in 0..MaxTrace}

\* The pin's level after k steps of the trace
LevelAfter(k) == IF k = 0 THEN level0 ELSE trace[k].level

InitEquiv ==
    /\ InitUartPin
    /\ InitTryDone
    /\ InitNoRuntime
    /\ trace \in Traces
    /\ level0 \in BOOLEAN
    /\ eop \in WaitOps
    /\ spc = "idle"
    /\ si = 0
    /\ stt = CpuZero
    /\ sstate = FALSE
    /\ apc = "idle"
    /\ ai = 0
    /\ att = CpuZero
    /\ astate = FALSE

\* DigitalPin: entry of the operation
SyncCall ==
    /\ spc = "idle"
    /\ stt' = CpuZero
    /\ sstate' = IF eop = "pulse_in" THEN LevelAfter(si) ELSE FALSE
    /\ spc' = "loop"
    /\ UNCHANGED <<trace, level0, eop, si, apc, ai, att, astate,
                   uartVars, pinVars, tryVars, rtVars>>

\* DigitalPin: `while cond { tt += self.avr.run(); }`, one iteration
SyncStep ==
    /\ spc = "loop"
    /\ WaitCond(eop, LevelAfter(si), sstate)
    /\ si < Len(trace)
    /\ si' = si + 1
    /\ stt' = Accumulate(stt, trace[si + 1].cycles)
    /\ UNCHANGED <<trace, level0, eop, spc, sstate, apc, ai, att, astate,
                   uartVars, pinVars, tryVars, rtVars>>

\* DigitalPin: the condition is false, the operation returns tt
SyncReturn ==
    /\ spc = "loop"
    /\ ~WaitCond(eop, LevelAfter(si), sstate)
    /\ spc' = "done"
    /\ UNCHANGED <<trace, level0, eop, si, stt, sstate, apc, ai, att, astate,
                   uartVars, pinVars, tryVars, rtVars>>

\* DigitalPinAsync: entry of the operation
AsyncCall ==
    /\ apc = "idle"
    /\ att' = CpuZeroAsync
    /\ astate' = IF eop = "pulse_in" THEN LevelAfter(ai) ELSE FALSE
    /\ apc' = "loop"
    /\ UNCHANGED <<trace, level0, eop, spc, si, stt, sstate, ai,
                   uartVars, pinVars, tryVars, rtVars>>

\* DigitalPinAsync: the condition holds, `avr_rt().run().await` suspends
AsyncSuspend ==
    /\ apc = "loop"
    /\ WaitCondAsync(eop, LevelAfter(ai), astate)
    /\ ai < Len(trace)
    /\ apc' = "await"
    /\ UNCHANGED <<trace, level0, eop, spc, si, stt, sstate, ai, att, astate,
                   uartVars, pinVars, tryVars, rtVars>>

\* DigitalPinAsync: resumed with the step's duration, `tt += ..`
AsyncResume ==
    /\ apc = "await"
    /\ ai' = ai + 1
    /\ att' = Accumulate(att, trace[ai + 1].cycles)
    /\ apc' = "loop"
    /\ UNCHANGED <<trace, level0, eop, spc, si, stt, sstate, astate,
                   uartVars, pinVars, tryVars, rtVars>>

\* DigitalPinAsync: the condition is false, the operation returns tt
AsyncReturn ==
    /\ apc = "loop"
    /\ ~WaitCondAsync(eop, LevelAfter(ai), astate)
    /\ apc' = "done"
    /\ UNCHANGED <<trace, level0, eop, spc, si, stt, sstate, ai, att, astate,
                   uartVars, pinVars, tryVars, rtVars>>

NextEquiv ==
    \/ SyncCall
    \/ SyncStep
    \/ SyncReturn
    \/ AsyncCall
    \/ AsyncSuspend
    \/ AsyncResume
    \/ AsyncReturn

SpecEquiv == InitEquiv /\ [][NextEquiv]_vars

(***************************************************************************)
(* The cooperative runtime: components suspended in DigitalPinAsync wait    *)
(* operations, one engine.  The runtime resumes every pending component     *)
(* once per completed step, in the order they suspended, and steps the      *)
(* engine once none is left to resume.                                      *)
(***************************************************************************)
RtPins == {"PD1", "PD2"}

\* The pin a component's handle is bound to
PinOf(c) == IF c % 2 = 1 THEN "PD1" ELSE "PD2"

Component == [op : WaitOps, cpc : {"ready"}, state : {FALSE},
              tt : {CpuZeroAsync}, seen : {<<>>}, obs : {<<>>}]

InitAsync ==
    /\ InitUartPin
    /\ InitTryDone
    /\ InitNoEquiv
    /\ comps \in UNION {[1..n -> Component] : n \in 1..NComp}
    /\ queue = [i \in 1..Len(comps) |-> i]
    /\ pending = <<>>
    /\ stepNo = 0
    /\ rtPin \in [RtPins -> BOOLEAN]
    /\ rtPin0 = rtPin
    /\ durs = <<>>
    /\ rtLevels = <<>>

\* What a component does between two suspensions: test the loop condition on
\* the current level, then suspend in run().await or return.
Recheck(c, me) ==
    LET waits == WaitCondAsync(me.op, rtPin[PinOf(c)], me.state) IN
      /\ comps' = [comps EXCEPT ![c] =
                     [me EXCEPT !.cpc = IF waits THEN "await" ELSE "done",
                                !.obs = Append(me.obs, rtPin[PinOf(c)])]]
      /\ pending' = IF waits THEN Append(pending, c) ELSE pending
      /\ queue' = Tail(queue)

\* First poll of a component: entry of its wait operation
RtStart ==
    /\ queue # <<>>
    /\ LET c == Head(queue) IN
         /\ comps[c].cpc = "ready"
         /\ Recheck(c, [comps[c] EXCEPT
                          !.tt = CpuZeroAsync,
                          !.state = IF comps[c].op = "pulse_in" THEN rtPin[PinOf(c)]
                                                               ELSE FALSE])
    /\ UNCHANGED <<stepNo, rtPin, rtPin0, durs, rtLevels,
                   uartVars, pinVars, tryVars, eqVars>>

\* a resumed component that takes the step's duration twice
RtResumeTwice ==
    /\ queue # <<>>
    /\ LET c == Head(queue) IN
         /\ comps[c].cpc = "await"
         /\ Recheck(c, [comps[c] EXCEPT
                          !.tt = Accumulate(Accumulate(comps[c].tt, durs[stepNo]),
                                            durs[stepNo]),
                          !.seen = comps[c].seen \o <<stepNo, stepNo>>])
    /\ UNCHANGED <<stepNo, rtPin, rtPin0, durs, rtLevels,
                   uartVars, pinVars, tryVars, eqVars>>

\* A suspended component is resumed with the duration of the step just
\* completed: `tt += avr_rt().run().await`, then the condition again
RtResume ==
    /\ queue # <<>>
    /\ LET c == Head(queue) IN
         /\ comps[c].cpc = "await"
         /\ Recheck(c, [comps[c] EXCEPT
                          !.tt = Accumulate(comps[c].tt, durs[stepNo]),
                          !.seen = Append(comps[c].seen, stepNo)])
    /\ UNCHANGED <<stepNo, rtPin, rtPin0, durs, rtLevels,
                   uartVars, pinVars, tryVars, eqVars>>

\* The engine's next step, once every pending component was resumed
RtStep(cycles, levelOf) ==
    /\ queue = <<>>
    /\ pending # <<>>
    /\ stepNo < MaxRtSteps
    /\ stepNo' = stepNo + 1
    /\ durs' = Append(durs, cycles)
    /\ rtLevels' = Append(rtLevels, levelOf)
    /\ rtPin' = levelOf
    /\ queue' = pending
    /\ pending' = <<>>
    /\ UNCHANGED <<comps, rtPin0, uartVars, pinVars, tryVars, eqVars>>

RtStepAny == \E c \in StepCycles, levelOf \in [RtPins -> BOOLEAN] : RtStep(c, levelOf)

NextAsync ==
    \/ RtStart
    \/ RtResume
    \/ RtStepAny

SpecAsync == InitAsync /\ [][NextAsync]_vars

(***************************************************************************)
(* Properties of the channel buffer                                        *)
(***************************************************************************)
AtCapacity == Len(rx) = 16384

\* C1: in every reachable state rx holds at most 16384 bytes, whatever the
\* engine delivers and whatever recv/send/flush/XON/XOFF happen in between.
C1_RxBounded == Len(rx) <= 16384

\* rx is full and the engine has delivered more bytes than rx can hold
C1_Witness == AtCapacity /\ Len(outLog) > 16384

\* C2: a data-output notification that finds rx at 16384 bytes changes none
\* of rx, tx, xon and hands nothing to the reader; every recv() moves exactly
\* the front byte of rx to the caller, so the queued bytes come out in their
\* original order and the dropped byte never does.
C2_DropNewest ==
    [][ /\ (AtCapacity /\ OnOutputAny) =>
              (rx' = rx /\ tx' = tx /\ xon' = xon /\ recvLog' = recvLog)
        /\ Recv => (recvLog' \o rx' = recvLog \o rx) ]_vars

\* 0xFF arrived as byte 16385 while rx was full, and the recv() after it
\* returned the oldest queued byte
C2_Witness ==
    /\ Len(outLog) = MAX_BYTES + 1
    /\ outLog[MAX_BYTES + 1] = 255
    /\ recvLog = <<65>>
    /\ Len(rx) = MAX_BYTES - 1

\* C3: every step that hands a byte to the engine starts in a state where
\* xon is true; after XOFF (also one raised in the middle of the flush loop)
\* nothing is injected until XON.
C3_NoInjectWhileXoff == [][(injected' # injected) => xon]_vars

\* the flush loop is about to test is_xon() with XOFF asserted after an
\* injection, and bytes are still queued
C3_Witness == pc = "flush" /\ ~xon /\ injected # <<>> /\ tx # <<>>

\* C4: the bytes injected so far followed by the bytes still in tx are the
\* bytes passed to send(), in call order.
C4_TxConserved == injected \o tx = sent

\* XOFF is asserted after 3 of 5 sent bytes were injected; 2 stay queued
C4_Witness ==
    /\ ~xon
    /\ Len(sent) = 5
    /\ Len(injected) = 3
    /\ Len(tx) = 2
    /\ sent[4] # sent[5]

\* C5: when the engine has echoed exactly the bytes sent (all of them
\* injected, at most 16384), the bytes recv() returned followed by the bytes
\* still in rx are that sequence, and a recv() that reported no data came
\* only after all of them were returned.
C5_RoundTrip ==
    (outLog = sent /\ injected = sent /\ Len(sent) <= MAX_BYTES) =>
        /\ recvLog \o rx = sent
        /\ sawNone => recvLog = sent

\* two different bytes were sent, echoed, read back in order, then None
C5_Witness ==
    /\ Len(sent) = 2
    /\ sent[1] # sent[2]
    /\ injected = sent
    /\ outLog = sent
    /\ recvLog = sent
    /\ sawNone

\* C6 as stated: with XOFF asserted the bytes held in rx and tx stay within
\* the capacity of two bounded queues.
C6_TotalBounded == ~xon => Len(rx) + Len(tx) <= 2 * MAX_BYTES

\* C6 amended: rx is bounded by MAX_BYTES, tx is not: it holds every byte
\* sent and not yet injected.
C6_OnlyRxBounded ==
    /\ Len(rx) <= MAX_BYTES
    /\ Len(tx) + Len(injected) = Len(sent)

\* XOFF is asserted and tx alone holds more than two rx capacities
C6_Witness == ~xon /\ Len(tx) > 2 * MAX_BYTES

\* C10: once try_read_byte() returned None and run() was not called since,
\* a further try_read_byte() returns None again.
C10_NoneUntilRun == [][(sawNone /\ Recv) => (sawNone' /\ recvLog' = recvLog)]_vars

\* try_read_byte() returned None and bytes were sent, with no run() since
C10_Witness == sawNone /\ pc = "test" /\ tx # <<>> /\ sent # <<>>
\* C11: on an empty rx a strict read panics and try_read_byte() returns None
\* without failing, neither touching rx, tx or xon nor yielding a byte; on a
\* non-empty rx both return the front byte and remove exactly that byte.
C11_StrictRead ==
    [][ /\ (ReadByte /\ rx = <<>>) =>
              (pc' = "panic" /\ recvLog' = recvLog /\ UNCHANGED <<rx, tx, xon>>)
        /\ (Recv /\ rx = <<>>) =>
              (pc' = "test" /\ sawNone' /\ recvLog' = recvLog
               /\ UNCHANGED <<rx, tx, xon>>)
        /\ ((ReadByte \/ Recv) /\ rx # <<>>) =>
              (pc' = "test" /\ recvLog' = Append(recvLog, Head(rx))
               /\ rx' = Tail(rx) /\ UNCHANGED <<tx, xon>>) ]_vars

\* a strict read panicked on an empty rx after an earlier read had succeeded,
\* with bytes still queued for transmission
C11_Witness == pc = "panic" /\ rx = <<>> /\ recvLog # <<>> /\ tx # <<>>

\* C16: xon is true in the initial state and changes only in an XON or XOFF
\* notification (on_xon sets it, on_xoff clears it, also when the engine
\* raises XOFF in answer to an injected byte); send, recv, the strict read,
\* data-output notifications and the flush loop itself leave it alone.
C16_XonByNotificationOnly ==
    /\ xon = TRUE
    /\ [][ /\ (xon' # xon) => (OnXon \/ OnXoff \/ FlushStep(TRUE))
           /\ OnXon => xon'
           /\ (OnXoff \/ (FlushStep(TRUE) /\ injected' # injected)) => ~xon'
           /\ (SendAny \/ WriteArrayAny \/ Recv \/ ReadByte \/ OnOutputAny
               \/ OnOutputBurstAny \/ FlushStep(FALSE)) => (xon' = xon) ]_vars

\* inside run(), flush stopped on XOFF with bytes queued and XON followed
C16_Witness == pc = "engine" /\ xon /\ tx # <<>> /\ injected # <<>>

\* bytes this flush call has injected so far
FlushInjected == Len(txEntry) - Len(tx)

\* C19: flush() terminates: every iteration that stays in the loop shortens
\* tx.  It injects the bytes tx held at entry, front first and never more
\* than those, and returns with xon false or tx empty; it ends on an
\* iteration that finds xon false or tx empty and injects nothing.
C19_FlushTerminates ==
    /\ [][ /\ (pc = "flush" /\ pc' = "flush") => Len(tx') < Len(tx)
           /\ (pc = "flush" /\ pc' # "flush") =>
                  (pc' = "engine" /\ (~xon \/ tx = <<>>)
                   /\ UNCHANGED <<tx, xon, injected>>) ]_vars
    /\ [](pc = "flush" =>
            /\ FlushInjected \in 0..Len(txEntry)
            /\ FlushInjected <= Len(injected)
            /\ txEntry =
                 SubSeq(injected, Len(injected) - FlushInjected + 1, Len(injected))
                   \o tx)

\* a flush that found 3 bytes queued has injected them all and is about to
\* find tx empty
C19_Witness ==
    /\ pc = "flush"
    /\ Len(txEntry) = 3
    /\ tx = <<>>
    /\ xon
    /\ Len(injected) = 3

(***************************************************************************)
(* Properties of the pin wait operations                                   *)
(***************************************************************************)
RECURSIVE SumSeq(_)
SumSeq(q) == IF q = <<>> THEN 0 ELSE Head(q) + SumSeq(Tail(q))

Returned(o) == ppc = "done" /\ op = o

\* C7: wait_while_low() returns a zero duration exactly when the pin was high
\* at call time, wait_while_high() exactly when it was low.
C7_ZeroIffAlready ==
    /\ Returned("wait_while_low") => ((tt = CpuZero) <=> pin0)
    /\ Returned("wait_while_high") => ((tt = CpuZero) <=> ~pin0)

\* wait_while_high() on a high pin returned, asynchronously, after stepping
C7_Witness ==
    /\ Returned("wait_while_high")
    /\ mode = "async"
    /\ pin0
    /\ Len(reported) >= 2

\* C8: when pulse_in() returns, the pin's level differs from the level at
\* call time, at least one step was executed and the duration is at least
\* that of one step.
C8_PulseIn ==
    Returned("pulse_in") =>
        /\ pin # pin0
        /\ Len(reported) >= 1
        /\ tt.cycles >= reported[1]

\* pulse_in() returned after the level stayed put for one step or more
C8_Witness == Returned("pulse_in") /\ Len(reported) >= 2 /\ pin0

\* C9: the accumulated duration is the sum of the durations reported by the
\* steps of the operation, from zero; at 16 MHz steps of 4, 4 and 8 cycles
\* make 16 cycles, 1 microsecond.
C9_Additive ==
    /\ tt = CpuDuration(ClockFrequency, SumSeq(reported))
    /\ reported = <<4, 4, 8>> => (tt.cycles = 16 /\ AsMicros(tt) = 1)

\* an operation returned after steps of 4, 4 and 8 cycles
C9_Witness == ppc = "done" /\ reported = <<4, 4, 8>>

\* The levels the operation in progress has observed: at call time, then
\* after each step.
Observed == <<pin0>> \o levels

\* C17: wait_while_low() returns at the first observed state, at call time or
\* after a step, in which the pin is high, and wait_while_high() at the first
\* in which it is low: every earlier observed state had the other level, the
\* awaited level holds on return and no step follows the state that satisfied
\* the wait.
C17_FirstSatisfied ==
    /\ (ppc # "idle" /\ op = "wait_while_low") =>
          /\ \A i \in 1..(Len(Observed) - 1) : ~Observed[i]
          /\ Returned("wait_while_low") => (IsHigh /\ Observed[Len(Observed)])
    /\ (ppc # "idle" /\ op = "wait_while_high") =>
          /\ \A i \in 1..(Len(Observed) - 1) : Observed[i]
          /\ Returned("wait_while_high") => (IsLow /\ ~Observed[Len(Observed)])
    /\ (ppc # "idle" /\ op \in WaitOps) =>
          (Len(levels) = Len(reported) /\ pin = Observed[Len(Observed)])

\* wait_while_low() returned at the first high level, seen after the third step
C17_Witness ==
    /\ Returned("wait_while_low")
    /\ mode = "sync"
    /\ Observed = <<FALSE, FALSE, FALSE, TRUE>>

\* C20: toggle() inverts the pin: the level is_high() reads right after
\* toggle() is the negation of the level right before it, is_low() is the
\* negation of is_high(), and two toggle() calls in a row restore the level
\* the first one found (sync and async handle alike).
C20_ToggleInverts ==
    /\ IsLow = ~IsHigh
    /\ toggled # <<>> => IsHigh = ~toggled[Len(toggled)]
    /\ Len(toggled) = 2 => IsHigh = toggled[1]

\* two toggle() calls in a row on a pin that a wait operation left high
C20_Witness == Len(toggled) = 2 /\ toggled[1] /\ op = "pulse_in" /\ IsHigh

\* The wait operation in progress still finds its condition true.
Waiting == ppc = "loop" /\ LoopCond

\* C18: waiting has no internal timeout or cancellation.  A wait operation
\* returns only from a state in which its loop condition is false (for
\* pulse_in: the level differs from the captured one), and from such a state
\* it does return; while the condition holds the only thing the operation
\* does is take another step, however many it has taken.
C18_NoTimeout ==
    /\ [][ /\ (ppc # "done" /\ ppc' = "done") =>
                (ppc = "loop" /\ ~LoopCond
                 /\ UNCHANGED <<pin, op, state, tt, reported>>)
           /\ Waiting =>
                (/\ ppc' \in {"loop", "await"}
                 /\ UNCHANGED <<op, mode, state>>
                 /\ ppc' = "loop" => Len(reported') = Len(reported) + 1) ]_vars
    /\ [](ppc = "await" => ~ENABLED LoopExit)
    /\ [](Waiting => ~ENABLED LoopExit)
    /\ (ppc = "loop" /\ ~LoopCond) ~> (ppc = "done")
    /\ [](Returned("pulse_in") => (IsHigh # state /\ levels # <<>>
                                   /\ levels[Len(levels)] # state))

\* pulse_in() is still looping after MaxSteps steps that left the level alone
C18_Witness ==
    /\ Waiting
    /\ op = "pulse_in"
    /\ Len(levels) = MaxSteps
    /\ \A i \in 1..Len(levels) : levels[i] = pin0

\* C15: only a step advances simulated time.  The engine's cycle count changes
\* in a step of a wait operation only, by the cycles that step reports; set(),
\* toggle(), recv()/try_read_byte()/read_byte() and send() leave it alone, as
\* do entering and leaving a wait operation; is_high()/is_low() and the
\* assertions only read the level.  A wait operation whose condition is
\* already satisfied at call time returns without a step.
C15_OnlyStepAdvances ==
    /\ [][ /\ (cycle' # cycle) =>
                (/\ StepSyncAny \/ ResumeAny
                 /\ reported' = Append(reported, cycle' - cycle)
                 /\ cycle' > cycle)
           /\ (SetAny \/ Toggle \/ TestSend \/ TestRecv \/ TestReadByte
               \/ CallAny \/ LoopExit \/ Suspend) => (cycle' = cycle) ]_vars
    /\ [](Returned("wait_while_low") /\ pin0 => reported = <<>>)
    /\ [](Returned("wait_while_high") /\ ~pin0 => reported = <<>>)
    /\ [](ppc # "idle" /\ op \in WaitOps /\ reported = <<>> => tt = CpuZero)

\* after 12 cycles of stepping: a send(), a toggle(), then wait_while_low()
\* on the high pin returned without a step
C15_Witness ==
    /\ cycle = 12
    /\ sent # <<>>
    /\ Returned("wait_while_low")
    /\ pin0
    /\ reported = <<>>

\* C12: try_init on a profile without the channel returns None and leaves the
\* channel's flags and the engine's hooks as they were; on a profile with the
\* channel and its three irqs it clears the stdio flag (and no other) and has
\* registered on_output, on_xon and on_xoff, in that order, when it returns
\* Some; when an irq is missing it panics with no hook registered.
C12_TryInit ==
    /\ ~supported =>
          (ipc \in {"start", "none"} /\ uartFlags = flags0 /\ hooks = <<>>)
    /\ ipc = "none" => ~supported
    /\ ipc = "some" =>
          /\ supported /\ nullIrqs = {}
          /\ uartFlags = flags0 \ {"AVR_UART_FLAG_STDIO"}
          /\ hooks = AllHooks
    /\ ipc = "panic" => (supported /\ nullIrqs # {} /\ hooks = <<>>)
    /\ nullIrqs # {} => (ipc # "some" /\ hooks = <<>>)
    /\ ipc \in {"irqs", "register", "panic"} =>
          uartFlags = flags0 \ {"AVR_UART_FLAG_STDIO"}

\* try_init succeeded on a channel that had both flags set
C12_Witness ==
    /\ ipc = "some"
    /\ flags0 = UartFlag
    /\ uartFlags = {"AVR_UART_FLAG_POOL_SLEEP"}
    /\ Len(hooks) = 3

\* C14: given the same engine behaviour, the async handle's operation
\* captures the same level, executes the same number of steps and returns
\* the same duration as the sync handle's; neither returns at a point where
\* the other steps on, and when the engine's steps run out before the
\* condition turns false both are still waiting.
C14_AsyncAsSync ==
    /\ (spc # "idle" /\ apc # "idle") => sstate = astate
    /\ (spc = "done" /\ apc = "done") => (si = ai /\ stt = att)
    /\ spc = "done" => ai <= si
    /\ apc = "done" => si <= ai
    /\ (spc = "done" /\ ai = si) => apc # "await"
    /\ (si = ai /\ spc # "idle" /\ apc # "idle") => stt = att
    /\ (si = ai /\ spc = "loop" /\ apc = "loop") =>
          (ENABLED SyncReturn <=> ENABLED AsyncReturn)

\* pulse_in() on a low pin: both handles returned after the same three steps
C14_Witness ==
    /\ eop = "pulse_in"
    /\ ~level0
    /\ spc = "done"
    /\ apc = "done"
    /\ si = 3
    /\ ai = 3
    /\ stt.cycles = 16

InQueue(c) == \E i \in 1..Len(queue) : queue[i] = c

\* The pin levels the engine has shown: before the first step, then after each
RtShown == <<rtPin0>> \o rtLevels

\* C13: under the cooperative runtime every component of any number waiting
\* in pulse_in / wait_while_low / wait_while_high observes the same sequence
\* of post-step states.  Each component it has started has consumed the
\* steps 1, 2, .. k in order, each exactly once, observed the level before
\* the first step and the level after each of them, and accumulated their
\* durations; a suspended component is at most the step just completed
\* behind, and then it is still queued for it; no component has checked its
\* condition after step n+1 while another is still to be resumed for step n.
C13_SameSequence ==
    /\ \A c \in 1..Len(comps) :
         LET me == comps[c]
             k == Len(me.seen)
         IN /\ me.seen = [i \in 1..k |-> i]
            /\ k <= stepNo
            /\ me.cpc # "ready" =>
                  /\ me.obs = [i \in 1..(k + 1) |-> RtShown[i][PinOf(c)]]
                  /\ me.tt = CpuDuration(ClockFrequency, SumSeq(SubSeq(durs, 1, k)))
            /\ me.cpc = "await" =>
                  (k = stepNo \/ (k = stepNo - 1 /\ InQueue(c)))
            /\ (me.cpc = "await" /\ k = stepNo) => ~InQueue(c)
            /\ me.cpc = "done" => ~WaitCondAsync(me.op, RtShown[k + 1][PinOf(c)], me.state)
    /\ \A c, d \in 1..Len(comps) :
         (comps[c].cpc = "await" /\ comps[d].cpc = "await") =>
            /\ Len(comps[c].seen) - Len(comps[d].seen) \in {-1, 0, 1}
            /\ Len(comps[c].seen) > Len(comps[d].seen) => InQueue(d)

\* two components, two steps: one returned after the first, the other has
\* been resumed for both and is still waiting
C13_Witness ==
    /\ Len(comps) = 2
    /\ stepNo = 2
    /\ comps[1].cpc = "done"
    /\ comps[1].seen = <<1>>
    /\ comps[2].cpc = "await"
    /\ comps[2].seen = <<1, 2>>
====
